---------------------------- MODULE Spec2Model ----------------------------
(***************************************************************************)
(* A model of the SpiderFoot module sfp_leakix (modules/sfp_leakix.py):    *)
(* the per-session state (results, errorState), the handler handleEvent    *)
(* with queryHost and parseAPIResponse, and the walk over the decoded      *)
(* LeakIX document that produces the module's events.                      *)
(*                                                                         *)
(* Python values are tagged pairs <<tag, payload>>; the tag fixes the type *)
(* of the payload.  A response body is a sequence of JSON tokens, and      *)
(* json_loads is a recursive-descent parser over it.                       *)
(***************************************************************************)
EXTENDS Integers, Sequences, FiniteSets, TLC

(***************************************************************************)
(* Python values                                                           *)
(***************************************************************************)
PyNone == <<"none", 0>>
PyStr(s) == <<"str", s>>
PyInt(n) == <<"int", n>>
PyBool(b) == <<"bool", b>>
PyList(xs) == <<"list", xs>>
\* a dict is the sequence of its <<key, value>> items, in insertion order
PyDict(items) == <<"dict", items>>

IsNone(v) == v[1] = "none"
IsStr(v) == v[1] = "str"
IsDict(v) == v[1] = "dict"

\* `if v:` -- Python's truth value of v
Truthy(v) ==
    CASE v[1] = "none" -> FALSE
      [] v[1] = "str" -> v[2] # ""
      [] v[1] = "int" -> v[2] # 0
      [] v[1] = "bool" -> v[2]
      [] v[1] = "list" -> Len(v[2]) > 0
      [] v[1] = "dict" -> Len(v[2]) > 0

\* d.get(k) for a dict d: the value of the item with key k, else None
RECURSIVE ItemsGet(_, _)
ItemsGet(items, k) ==
    IF items = <<>> THEN PyNone
    ELSE IF Head(items)[1] = k THEN Head(items)[2]
    ELSE ItemsGet(Tail(items), k)

DictGet(d, k) == ItemsGet(d[2], k)

\* d[k] = v on the items of a dict: a present key keeps its place
RECURSIVE ItemsSet(_, _, _)
ItemsSet(items, k, v) ==
    IF items = <<>> THEN << <<k, v>> >>
    ELSE IF Head(items)[1] = k THEN << <<k, v>> >> \o Tail(items)
    ELSE <<Head(items)>> \o ItemsSet(Tail(items), k, v)

\* the characters of a string, each a one-character string
Chars(s) == [i \in 1..Len(s) |-> PyStr(SubSeq(s, i, i))]

\* `for x in v`: the items the loop visits; ok is FALSE when v is not
\* iterable (TypeError)
Iterate(v) ==
    CASE v[1] = "list" -> [ok |-> TRUE, items |-> v[2]]
      [] v[1] = "dict" -> [ok |-> TRUE, items |-> [i \in 1..Len(v[2]) |-> PyStr(v[2][i][1])]]
      [] v[1] = "str" -> [ok |-> TRUE, items |-> Chars(v[2])]
      [] OTHER -> [ok |-> FALSE, items |-> <<>>]

\* [_f for _f in xs if _f]
RECURSIVE FilterTruthy(_)
FilterTruthy(xs) ==
    IF xs = <<>> THEN <<>>
    ELSE IF Truthy(Head(xs)) THEN <<Head(xs)>> \o FilterTruthy(Tail(xs))
    ELSE FilterTruthy(Tail(xs))

\* sep.join(xs): ok is FALSE when an item is not a str (TypeError)
RECURSIVE JoinStr(_, _)
JoinStr(sep, xs) ==
    IF xs = <<>> THEN ""
    ELSE IF Len(xs) = 1 THEN Head(xs)[2]
    ELSE Head(xs)[2] \o sep \o JoinStr(sep, Tail(xs))

Join(sep, xs) ==
    IF \A i \in 1..Len(xs) : IsStr(xs[i])
    THEN [ok |-> TRUE, val |-> PyStr(JoinStr(sep, xs))]
    ELSE [ok |-> FALSE, val |-> PyNone]

\* repr(v)
RECURSIVE Repr(_), ReprElems(_), ReprItems(_)
Repr(v) ==
    CASE v[1] = "none" -> "None"
      [] v[1] = "str" -> "'" \o v[2] \o "'"
      [] v[1] = "int" -> ToString(v[2])
      [] v[1] = "bool" -> IF v[2] THEN "True" ELSE "False"
      [] v[1] = "list" -> "[" \o ReprElems(v[2]) \o "]"
      [] v[1] = "dict" -> "{" \o ReprItems(v[2]) \o "}"

ReprElems(xs) ==
    IF xs = <<>> THEN ""
    ELSE IF Len(xs) = 1 THEN Repr(Head(xs))
    ELSE Repr(Head(xs)) \o ", " \o ReprElems(Tail(xs))

ReprItems(items) ==
    IF items = <<>> THEN ""
    ELSE LET one == "'" \o Head(items)[1] \o "': " \o Repr(Head(items)[2])
         IN IF Len(items) = 1 THEN one ELSE one \o ", " \o ReprItems(Tail(items))

\* str(v): a str is itself, anything else its repr
Str(v) == IF IsStr(v) THEN v[2] ELSE Repr(v)

(***************************************************************************)
(* JSON text: a sequence of tokens <<kind, payload>>                       *)
(***************************************************************************)
Tok(k) == <<k, 0>>
TokStr(s) == <<"str", s>>
TokNum(n) == <<"num", n>>

ParseFail == [ok |-> FALSE, val |-> PyNone, next |-> 0]

\* json.loads: one value starting at token i; next is the token after it
RECURSIVE ParseValue(_, _), ParseElems(_, _, _), ParseMembers(_, _, _)
ParseValue(toks, i) ==
    IF i > Len(toks) THEN ParseFail
    ELSE LET k == toks[i][1] IN
         CASE k = "null" -> [ok |-> TRUE, val |-> PyNone, next |-> i + 1]
           [] k = "true" -> [ok |-> TRUE, val |-> PyBool(TRUE), next |-> i + 1]
           [] k = "false" -> [ok |-> TRUE, val |-> PyBool(FALSE), next |-> i + 1]
           [] k = "str" -> [ok |-> TRUE, val |-> PyStr(toks[i][2]), next |-> i + 1]
           [] k = "num" -> [ok |-> TRUE, val |-> PyInt(toks[i][2]), next |-> i + 1]
           [] k = "[" ->
                IF i + 1 <= Len(toks) /\ toks[i + 1][1] = "]"
                THEN [ok |-> TRUE, val |-> PyList(<<>>), next |-> i + 2]
                ELSE ParseElems(toks, i + 1, <<>>)
           [] k = "{" ->
                IF i + 1 <= Len(toks) /\ toks[i + 1][1] = "}"
                THEN [ok |-> TRUE, val |-> PyDict(<<>>), next |-> i + 2]
                ELSE ParseMembers(toks, i + 1, <<>>)
           [] OTHER -> ParseFail

\* the elements of an array after "[" or ",", up to "]"
ParseElems(toks, i, acc) ==
    LET e == ParseValue(toks, i) IN
    IF ~e.ok \/ e.next > Len(toks) THEN ParseFail
    ELSE CASE toks[e.next][1] = "," -> ParseElems(toks, e.next + 1, Append(acc, e.val))
           [] toks[e.next][1] = "]" ->
                [ok |-> TRUE, val |-> PyList(Append(acc, e.val)), next |-> e.next + 1]
           [] OTHER -> ParseFail

\* the members of an object after "{" or ",", up to "}"; a repeated key
\* keeps its last value
ParseMembers(toks, i, acc) ==
    IF i + 1 > Len(toks) \/ toks[i][1] # "str" \/ toks[i + 1][1] # ":" THEN ParseFail
    ELSE LET e == ParseValue(toks, i + 2) IN
         IF ~e.ok \/ e.next > Len(toks) THEN ParseFail
         ELSE LET items == ItemsSet(acc, toks[i][2], e.val) IN
              CASE toks[e.next][1] = "," -> ParseMembers(toks, e.next + 1, items)
                [] toks[e.next][1] = "}" ->
                     [ok |-> TRUE, val |-> PyDict(items), next |-> e.next + 1]
                [] OTHER -> ParseFail

\* json.loads(text): the whole text is one value, else it raises
json_loads(toks) ==
    LET r == ParseValue(toks, 1) IN
    IF r.ok /\ r.next = Len(toks) + 1
    THEN [ok |-> TRUE, val |-> r.val]
    ELSE [ok |-> FALSE, val |-> PyNone]

\* the JSON text a server sends for a document (the inverse of json.loads)
RECURSIVE json_dumps(_), DumpElems(_), DumpItems(_)
json_dumps(v) ==
    CASE v[1] = "none" -> <<Tok("null")>>
      [] v[1] = "str" -> <<TokStr(v[2])>>
      [] v[1] = "int" -> <<TokNum(v[2])>>
      [] v[1] = "bool" -> <<Tok(IF v[2] THEN "true" ELSE "false")>>
      [] v[1] = "list" -> <<Tok("[")>> \o DumpElems(v[2]) \o <<Tok("]")>>
      [] v[1] = "dict" -> <<Tok("{")>> \o DumpItems(v[2]) \o <<Tok("}")>>

DumpElems(xs) ==
    IF xs = <<>> THEN <<>>
    ELSE IF Len(xs) = 1 THEN json_dumps(Head(xs))
    ELSE json_dumps(Head(xs)) \o <<Tok(",")>> \o DumpElems(Tail(xs))

DumpItems(items) ==
    IF items = <<>> THEN <<>>
    ELSE LET one == <<TokStr(Head(items)[1]), Tok(":")>> \o json_dumps(Head(items)[2])
         IN IF Len(items) = 1 THEN one ELSE one \o <<Tok(",")>> \o DumpItems(Tail(items))

(***************************************************************************)
(* The walk over the decoded document (handleEvent, lines 154-201).  A     *)
(* step yields the events it passes to notifyListeners, in order, and      *)
(* whether it raised; an exception ends the walk, the events already       *)
(* notified stay notified.                                                 *)
(***************************************************************************)
\* SpiderFootEvent(eventType, data, ...)
SpiderFootEvent(eventType, value) == <<eventType, value>>

Ok(evts) == [facts |-> evts, raised |-> FALSE]
Raise == [facts |-> <<>>, raised |-> TRUE]
\* a, then b unless a raised
Then(a, b) ==
    IF a.raised THEN a
    ELSE [facts |-> a.facts \o b.facts, raised |-> b.raised]

\* lines 161-164: str + str; a truthy port that is no str is a TypeError
PortStep(eventData, service) ==
    LET port == DictGet(service, "port") IN
    IF ~Truthy(port) THEN Ok(<<>>)
    ELSE IF ~IsStr(port) THEN Raise
    ELSE Ok(<<SpiderFootEvent("TCP_PORT_OPEN", PyStr(eventData \o ":" \o port[2]))>>)

\* lines 170-173
RECURSIVE ServerLoop(_)
ServerLoop(servers) ==
    IF servers = <<>> THEN <<>>
    ELSE (IF Truthy(Head(servers))
          THEN <<SpiderFootEvent("WEBSERVER_BANNER", Head(servers))>>
          ELSE <<>>) \o ServerLoop(Tail(servers))

\* lines 166-173
BannerStep(service) ==
    LET headers == DictGet(service, "headers") IN
    IF ~Truthy(headers) THEN Ok(<<>>)
    ELSE IF ~IsDict(headers) THEN Raise
    ELSE LET servers == DictGet(headers, "Server") IN
         IF ~Truthy(servers) THEN Ok(<<>>)
         ELSE IF ~Iterate(servers).ok THEN Raise
         ELSE Ok(ServerLoop(Iterate(servers).items))

\* line 177 with a filter that drops None only
GeoLocation_KeepEmpty(geoip) ==
    LET members == <<DictGet(geoip, "city_name"), DictGet(geoip, "region_name"),
                     DictGet(geoip, "country_name")>>
        IsSome(v) == ~IsNone(v)
    IN Join(", ", SelectSeq(members, IsSome))

\* line 177
GeoLocation(geoip) ==
    Join(", ", FilterTruthy(<<DictGet(geoip, "city_name"),
                              DictGet(geoip, "region_name"),
                              DictGet(geoip, "country_name")>>))

\* lines 175-180
GeoStep(service) ==
    LET geoip == DictGet(service, "geoip") IN
    IF ~Truthy(geoip) THEN Ok(<<>>)
    ELSE IF ~IsDict(geoip) THEN Raise
    ELSE LET location == GeoLocation(geoip) IN
         IF ~location.ok THEN Raise
         ELSE IF Truthy(location.val)
         THEN Ok(<<SpiderFootEvent("GEOINFO", location.val)>>)
         ELSE Ok(<<>>)

\* line 184
SoftwareVersion(software) ==
    Join(" ", FilterTruthy(<<DictGet(software, "name"),
                             DictGet(software, "version")>>))

\* lines 189-192
OsStep(software) ==
    LET os == DictGet(software, "os") IN
    IF Truthy(os) THEN Ok(<<SpiderFootEvent("OPERATING_SYSTEM", os)>>)
    ELSE Ok(<<>>)

\* lines 182-192 with lines 189-192 inside the `if software_version:`
SoftwareStep_OsNested(service) ==
    LET software == DictGet(service, "software") IN
    IF ~Truthy(software) THEN Ok(<<>>)
    ELSE IF ~IsDict(software) THEN Raise
    ELSE LET software_version == SoftwareVersion(software) IN
         IF ~software_version.ok THEN Raise
         ELSE IF Truthy(software_version.val)
         THEN Then(Ok(<<SpiderFootEvent("SOFTWARE_USED", software_version.val)>>),
                   OsStep(software))
         ELSE Ok(<<>>)

\* lines 182-192
SoftwareStep(service) ==
    LET software == DictGet(service, "software") IN
    IF ~Truthy(software) THEN Ok(<<>>)
    ELSE IF ~IsDict(software) THEN Raise
    ELSE LET software_version == SoftwareVersion(software) IN
         IF ~software_version.ok THEN Raise
         ELSE Then(IF Truthy(software_version.val)
                   THEN Ok(<<SpiderFootEvent("SOFTWARE_USED", software_version.val)>>)
                   ELSE Ok(<<>>),
                   OsStep(software))

\* one pass of the loop with the software block before the geoip block
ServiceFacts_SoftwareFirst(eventData, service) ==
    IF ~IsDict(service) THEN Raise
    ELSE Then(PortStep(eventData, service),
         Then(BannerStep(service),
         Then(SoftwareStep(service), GeoStep(service))))

\* lines 161-192, one pass of the loop: service.get on anything but a
\* dict is an AttributeError
ServiceFacts(eventData, service) ==
    IF ~IsDict(service) THEN Raise
    ELSE Then(PortStep(eventData, service),
         Then(BannerStep(service),
         Then(GeoStep(service), SoftwareStep(service))))

\* the loop of line 160 leaving at the first service that is empty
RECURSIVE ServiceLoop_StopAtEmpty(_, _)
ServiceLoop_StopAtEmpty(eventData, services) ==
    IF services = <<>> THEN Ok(<<>>)
    ELSE IF ~Truthy(Head(services)) THEN Ok(<<>>)
    ELSE Then(ServiceFacts(eventData, Head(services)),
              ServiceLoop_StopAtEmpty(eventData, Tail(services)))

\* line 160
RECURSIVE ServiceLoop(_, _)
ServiceLoop(eventData, services) ==
    IF services = <<>> THEN Ok(<<>>)
    ELSE Then(ServiceFacts(eventData, Head(services)),
              ServiceLoop(eventData, Tail(services)))

\* lines 157-192
ServicesStep(eventData, data) ==
    LET services == DictGet(data, "Services") IN
    IF ~Truthy(services) THEN Ok(<<>>)
    ELSE IF ~Iterate(services).ok THEN Raise
    ELSE ServiceLoop(eventData, Iterate(services).items)

\* lines 198-201, one pass of the loop
LeakFacts(leak) ==
    IF ~IsDict(leak) THEN Raise
    ELSE LET leak_data == DictGet(leak, "data") IN
         IF Truthy(leak_data)
         THEN Ok(<<SpiderFootEvent("LEAKSITE_CONTENT", leak_data)>>)
         ELSE Ok(<<>>)

\* line 197
RECURSIVE LeakLoop(_)
LeakLoop(leaks) ==
    IF leaks = <<>> THEN Ok(<<>>)
    ELSE Then(LeakFacts(Head(leaks)), LeakLoop(Tail(leaks)))

\* lines 194-201
LeaksStep(data) ==
    LET leaks == DictGet(data, "Leaks") IN
    IF ~Truthy(leaks) THEN Ok(<<>>)
    ELSE IF ~Iterate(leaks).ok THEN Raise
    ELSE LeakLoop(Iterate(leaks).items)

\* lines 154-155
RawStep(data) == Ok(<<SpiderFootEvent("RAW_RIR_DATA", PyStr(Str(data)))>>)

\* lines 154-201 for data that is not None: data.get on anything but a
\* dict is an AttributeError
Extract(eventData, data) ==
    Then(RawStep(data),
         IF ~IsDict(data) THEN Raise
         ELSE Then(ServicesStep(eventData, data), LeaksStep(data)))

(***************************************************************************)
(* Inputs: the events the scanner delivers and the results fetchUrl        *)
(* returns.  The documents cover the shapes LeakIX documents take (the     *)
(* example of the module's description, every presence pattern of the      *)
(* geoip and software members, empty entries) and wrong-shaped ones.       *)
(***************************************************************************)
\* the most fetchUrl results of one session
MaxQueries == 4
\* the call frames of handleEvent that can exist at one time
MaxCalls == 2

Targets == {"1.2.3.4", "5.6.7.8", "9.9.9.9"}
EventTypes == {"IP_ADDRESS", "INTERNET_NAME"}
Events == [eventType : EventTypes, data : Targets]

\* a member left out of an object
Absent == <<"absent", 0>>

RECURSIVE DropAbsent(_)
DropAbsent(items) ==
    IF items = <<>> THEN <<>>
    ELSE IF Head(items)[2] = Absent THEN DropAbsent(Tail(items))
    ELSE <<Head(items)>> \o DropAbsent(Tail(items))

Obj(items) == PyDict(DropAbsent(items))

Service(port, headers, geoip, software) ==
    Obj(<< <<"port", port>>, <<"headers", headers>>,
           <<"geoip", geoip>>, <<"software", software>> >>)
Servers(xs) == Obj(<< <<"Server", PyList(xs)>> >>)
GeoIp(city, region, country) ==
    Obj(<< <<"city_name", city>>, <<"region_name", region>>, <<"country_name", country>> >>)
Software(name, version, os) ==
    Obj(<< <<"name", name>>, <<"version", version>>, <<"os", os>> >>)
Leak(d) == Obj(<< <<"data", d>> >>)
Doc(services, leaks) == Obj(<< <<"Services", services>>, <<"Leaks", leaks>> >>)

\* {"Services":[{"port":"443","headers":{"Server":["nginx"]},
\*   "geoip":{"city_name":"Paris","country_name":"France"},
\*   "software":{"name":"nginx","version":"1.18","os":"Linux"}}],
\*  "Leaks":[{"data":"dump1"}]}
ExampleService ==
    Service(PyStr("443"), Servers(<<PyStr("nginx")>>),
            GeoIp(PyStr("Paris"), Absent, PyStr("France")),
            Software(PyStr("nginx"), PyStr("1.18"), PyStr("Linux")))
ExampleDoc == Doc(PyList(<<ExampleService>>), PyList(<<Leak(PyStr("dump1"))>>))

Opt(s) == {Absent, PyStr(""), PyStr(s)}

\* one service, every presence pattern of the geoip members
GeoDocs ==
    { Doc(PyList(<<Service(Absent, Absent, GeoIp(c, r, k), Absent)>>), Absent) :
        c \in Opt("Paris"), r \in Opt("Ile-de-France"), k \in Opt("France") }

\* one service, every presence pattern of the software members
SoftwareDocs ==
    { Doc(PyList(<<Service(Absent, Absent, Absent, Software(n, v, o))>>), Absent) :
        n \in Opt("nginx"), v \in Opt("1.18"), o \in Opt("Linux") }

\* several services and leaks, with empty entries among them
ListDocs ==
    { PyDict(<<>>),
      Doc(PyList(<<>>), PyList(<<>>)),
      Doc(Absent, PyList(<<Leak(PyStr("dump1")), Leak(PyStr("dump2"))>>)),
      Doc(PyList(<<ExampleService, PyDict(<<>>),
                   Service(PyStr("80"),
                           Servers(<<PyStr("Apache"), PyStr(""), PyStr("cloudflare")>>),
                           GeoIp(PyStr("Lyon"), PyStr("Rhone"), PyStr("France")),
                           Software(Absent, Absent, PyStr("FreeBSD")))>>),
          PyList(<<Leak(PyStr("dump1")), PyDict(<<>>), Leak(PyStr("")),
                   Leak(PyStr("dump2"))>>)),
      Doc(PyList(<<Service(PyStr("443"), Servers(<<PyStr("nginx")>>),
                           GeoIp(PyStr("Paris"), Absent, PyStr("France")),
                           PyDict(<<>>))>>), Absent),
      Doc(PyList(<<PyDict(<<>>), Service(PyStr(""), Servers(<<>>), Absent, Absent),
                   Service(PyStr("22"), Absent, Absent, Absent)>>),
          PyList(<<PyDict(<<>>), Leak(PyStr("dump3"))>>)) }

\* documents that decode but do not have the documented shape
WrongShapeDocs ==
    { PyList(<<PyInt(1)>>),
      PyStr("oops"),
      PyInt(7),
      Doc(PyInt(5), Absent),
      Doc(PyList(<<PyStr("x")>>), Absent),
      Doc(PyList(<<PyNone>>), PyList(<<Leak(PyStr("dump1"))>>)),
      Doc(PyList(<<Service(PyInt(443), Absent, Absent, Absent)>>), Absent),
      Doc(PyList(<<Service(PyStr("443"), PyStr("x"), Absent, Absent)>>), Absent),
      Doc(PyList(<<Service(Absent, Obj(<< <<"Server", PyStr("ab")>> >>), Absent, Absent)>>),
          Absent),
      Doc(PyList(<<Service(Absent, Absent, PyStr("Paris"), Absent)>>), Absent),
      Doc(PyList(<<Service(Absent, Absent, GeoIp(PyInt(5), Absent, PyStr("France")),
                           Absent)>>), Absent),
      Doc(PyList(<<Service(Absent, Absent, Absent, PyInt(5))>>), Absent),
      Doc(PyList(<<Service(Absent, Absent, Absent,
                           Software(PyStr("nginx"), PyInt(1), Absent))>>), Absent),
      Doc(PyList(<<ExampleService, PyStr("x")>>), PyList(<<Leak(PyStr("dump1"))>>)),
      Doc(Absent, PyList(<<Leak(PyStr("dump1")), PyStr("x")>>)) }

Docs == {ExampleDoc, PyNone} \cup GeoDocs \cup SoftwareDocs \cup ListDocs \cup WrongShapeDocs

\* texts that are not JSON: empty, cut short, a member without a value,
\* text after the value
BadTexts ==
    { <<>>,
      <<Tok("{")>>,
      <<Tok("{"), TokStr("Services"), Tok("}")>>,
      <<Tok("["), TokNum(1), Tok(","), Tok("]")>>,
      json_dumps(ExampleDoc) \o <<Tok("}")>>,
      <<Tok("<"), TokStr("html"), Tok(">")>> }

Text(toks) == <<"text", toks>>

\* what a body is, by where it comes from: absent, not JSON, or JSON
BodyKind(content) ==
    IF IsNone(content) THEN "none"
    ELSE IF content[2] \in BadTexts THEN "bad"
    ELSE "json"

Bodies == {PyNone} \cup {Text(json_dumps(d)) : d \in Docs} \cup {Text(t) : t \in BadTexts}

\* what fetchUrl can return: a status and a body; a call that timed out
\* has neither
Responses ==
    [code : {PyStr("200")}, content : Bodies]
    \cup [code : {PyStr("404"), PyStr("429"), PyStr("500")},
          content : {PyNone, Text(json_dumps(ExampleDoc))}]
    \cup [code : {PyNone}, content : {PyNone}]

(***************************************************************************)
(* The module instance and the calls of handleEvent in progress            *)
(***************************************************************************)
Calls == 1..MaxCalls

VARIABLES
    errorState,   \* self.errorState
    results,      \* the keys of self.results
    pc,           \* per call: where in handleEvent it is
    event,        \* per call: the event being handled
    res,          \* per call: what fetchUrl returned (queryHost)
    todo,         \* per call: the rest of the walk, [facts, raised]
    obs,          \* per call: what the call did and the state it started in
    fetched,      \* per target: the fetchUrl calls made for it
    sleeps,       \* the time.sleep calls made
    errors,       \* the sf.error calls made
    log,          \* the results classified so far: status, kind of body, and
                  \* whether fetchUrl was called with errorState already true
    asked         \* the targets handleEvent has been called for

vars == <<errorState, results, pc, event, res, todo, obs, fetched, sleeps, errors,
          log, asked>>

NoEvent == [eventType |-> "", data |-> ""]
NoResponse == [code |-> PyNone, content |-> PyNone]
NoObs == [errBefore |-> FALSE, seenBefore |-> FALSE, askedBefore |-> FALSE,
          logBefore |-> <<>>,
          calls |-> 0, sleeps |-> 0, errors |-> 0, late |-> FALSE, data |-> PyNone,
          facts |-> <<>>, raised |-> FALSE]

\* setup(): a fresh session
Init ==
    /\ errorState = FALSE
    /\ results = {}
    /\ pc = [c \in Calls |-> "idle"]
    /\ event = [c \in Calls |-> NoEvent]
    /\ res = [c \in Calls |-> NoResponse]
    /\ todo = [c \in Calls |-> Ok(<<>>)]
    /\ obs = [c \in Calls |-> NoObs]
    /\ fetched = [t \in Targets |-> 0]
    /\ sleeps = 0
    /\ errors = 0
    /\ log = <<>>
    /\ asked = {}

\* parseAPIResponse without the branch of lines 113-116
parseAPIResponse_OnlyRateLimitFatal(r) ==
    IF r.code = PyStr("404") THEN [data |-> PyNone, failed |-> FALSE]
    ELSE IF r.code = PyStr("429") THEN [data |-> PyNone, failed |-> TRUE]
    ELSE IF IsNone(r.content) THEN [data |-> PyNone, failed |-> FALSE]
    ELSE IF ~json_loads(r.content[2]).ok THEN [data |-> PyNone, failed |-> FALSE]
    ELSE [data |-> json_loads(r.content[2]).val, failed |-> FALSE]

\* parseAPIResponse with a body that does not decode ending the session
parseAPIResponse_DecodeFatal(r) ==
    IF r.code = PyStr("404") THEN [data |-> PyNone, failed |-> FALSE]
    ELSE IF r.code # PyStr("200") THEN [data |-> PyNone, failed |-> TRUE]
    ELSE IF IsNone(r.content) THEN [data |-> PyNone, failed |-> FALSE]
    ELSE IF ~json_loads(r.content[2]).ok THEN [data |-> PyNone, failed |-> TRUE]
    ELSE [data |-> json_loads(r.content[2]).val, failed |-> FALSE]

\* parseAPIResponse without the 404 branch of lines 102-104
parseAPIResponse_NotFoundFatal(r) ==
    IF r.code # PyStr("200") THEN [data |-> PyNone, failed |-> TRUE]
    ELSE IF IsNone(r.content) THEN [data |-> PyNone, failed |-> FALSE]
    ELSE IF ~json_loads(r.content[2]).ok THEN [data |-> PyNone, failed |-> FALSE]
    ELSE [data |-> json_loads(r.content[2]).val, failed |-> FALSE]

\* parseAPIResponse without line 109 (errorState = True on 429)
parseAPIResponse_RateLimitSoft(r) ==
    IF r.code = PyStr("404") THEN [data |-> PyNone, failed |-> FALSE]
    ELSE IF r.code = PyStr("429") THEN [data |-> PyNone, failed |-> FALSE]
    ELSE IF r.code # PyStr("200") THEN [data |-> PyNone, failed |-> TRUE]
    ELSE IF IsNone(r.content) THEN [data |-> PyNone, failed |-> FALSE]
    ELSE IF ~json_loads(r.content[2]).ok THEN [data |-> PyNone, failed |-> FALSE]
    ELSE [data |-> json_loads(r.content[2]).val, failed |-> FALSE]

\* parseAPIResponse with a missing body ending the session
parseAPIResponse_NoBodyFatal(r) ==
    IF r.code = PyStr("404") THEN [data |-> PyNone, failed |-> FALSE]
    ELSE IF r.code # PyStr("200") THEN [data |-> PyNone, failed |-> TRUE]
    ELSE IF IsNone(r.content) THEN [data |-> PyNone, failed |-> TRUE]
    ELSE IF ~json_loads(r.content[2]).ok THEN [data |-> PyNone, failed |-> FALSE]
    ELSE [data |-> json_loads(r.content[2]).val, failed |-> FALSE]

\* lines 101-127: the decoded document (None when there is none) and
\* whether the result is a failure that ends the session
parseAPIResponse(r) ==
    IF r.code = PyStr("404") THEN [data |-> PyNone, failed |-> FALSE]
    ELSE IF r.code = PyStr("429") THEN [data |-> PyNone, failed |-> TRUE]
    ELSE IF r.code # PyStr("200") THEN [data |-> PyNone, failed |-> TRUE]
    ELSE IF IsNone(r.content) THEN [data |-> PyNone, failed |-> FALSE]
    ELSE IF ~json_loads(r.content[2]).ok THEN [data |-> PyNone, failed |-> FALSE]
    ELSE [data |-> json_loads(r.content[2]).val, failed |-> FALSE]

\* handleEvent with `if not data:` for line 150
NoData_Falsy(data) == ~Truthy(data)
\* line 150
NoData(data) == IsNone(data)
\* handleEvent without lines 135-136
ErrorGate_Off == FALSE
\* line 135
ErrorGate == errorState
\* handleEvent without lines 138-139
SeenGate_Off(eventData) == FALSE
\* line 138
SeenGate(eventData) == eventData \in results
\* line 147
Watched(eventName) == eventName \in {"IP_ADDRESS"}

\* the scanner calls handleEvent(e): lines 130-133
HandleEvent(c, e) ==
    /\ pc[c] = "idle"
    /\ \A d \in Calls : d < c => pc[d] # "idle"
    /\ Len(log) < MaxQueries
    /\ event' = [event EXCEPT ![c] = e]
    /\ obs' = [obs EXCEPT ![c] = [NoObs EXCEPT !.errBefore = errorState,
                                               !.seenBefore = e.data \in results,
                                               !.askedBefore = e.data \in asked,
                                               !.logBefore = log]]
    /\ asked' = asked \cup {e.data}
    /\ pc' = [pc EXCEPT ![c] = "checkError"]
    /\ UNCHANGED <<errorState, results, res, todo, fetched, sleeps, errors, log>>

\* handleEvent with the errorState gate after line 141: the data is stored
\* in results before the gate returns
CheckErrorState_Marks(c) ==
    /\ pc[c] = "checkError"
    /\ results' = IF ErrorGate THEN results \cup {event[c].data} ELSE results
    /\ pc' = [pc EXCEPT ![c] = IF ErrorGate THEN "done" ELSE "checkSeen"]
    /\ UNCHANGED <<errorState, event, res, todo, obs, fetched, sleeps, errors,
                   log, asked>>

\* lines 135-136
CheckErrorState(c) ==
    /\ pc[c] = "checkError"
    /\ pc' = [pc EXCEPT ![c] = IF ErrorGate THEN "done" ELSE "checkSeen"]
    /\ UNCHANGED <<errorState, results, event, res, todo, obs, fetched, sleeps, errors,
                   log, asked>>

\* lines 138-139
CheckResults(c) ==
    /\ pc[c] = "checkSeen"
    /\ pc' = [pc EXCEPT ![c] = IF SeenGate(event[c].data) THEN "done" ELSE "mark"]
    /\ UNCHANGED <<errorState, results, event, res, todo, obs, fetched, sleeps, errors,
                   log, asked>>

\* handleEvent with line 141 inside the `if` of line 147
MarkResults_OnlyWatched(c) ==
    /\ pc[c] = "mark"
    /\ results' = IF Watched(event[c].eventType) THEN results \cup {event[c].data}
                  ELSE results
    /\ pc' = [pc EXCEPT ![c] = "checkType"]
    /\ UNCHANGED <<errorState, event, res, todo, obs, fetched, sleeps, errors, log,
                   asked>>

\* handleEvent without line 141
MarkResults_Skipped(c) ==
    /\ pc[c] = "mark"
    /\ pc' = [pc EXCEPT ![c] = "checkType"]
    /\ UNCHANGED <<errorState, results, event, res, todo, obs, fetched, sleeps, errors,
                   log, asked>>

\* line 141
MarkResults(c) ==
    /\ pc[c] = "mark"
    /\ results' = results \cup {event[c].data}
    /\ pc' = [pc EXCEPT ![c] = "checkType"]
    /\ UNCHANGED <<errorState, event, res, todo, obs, fetched, sleeps, errors, log,
                   asked>>

\* line 147: an event of another type falls through to the end
CheckEventName(c) ==
    /\ pc[c] = "checkType"
    /\ pc' = [pc EXCEPT ![c] = IF Watched(event[c].eventType) THEN "fetch" ELSE "done"]
    /\ UNCHANGED <<errorState, results, event, res, todo, obs, fetched, sleeps, errors,
                   log, asked>>

\* queryHost, lines 89-94: fetchUrl returns r
FetchUrl(c, r) ==
    /\ pc[c] = "fetch"
    /\ res' = [res EXCEPT ![c] = r]
    /\ fetched' = [fetched EXCEPT ![event[c].data] = @ + 1]
    /\ obs' = [obs EXCEPT ![c].calls = @ + 1, ![c].late = errorState]
    /\ pc' = [pc EXCEPT ![c] = "sleep"]
    /\ UNCHANGED <<errorState, results, event, todo, sleeps, errors, log, asked>>

\* queryHost with the delay taken only after a result with status '200'
Sleep_OnlyOnSuccess(c) ==
    /\ pc[c] = "sleep"
    /\ sleeps' = sleeps + (IF res[c].code = PyStr("200") THEN 1 ELSE 0)
    /\ obs' = [obs EXCEPT ![c].sleeps = @ + (IF res[c].code = PyStr("200") THEN 1 ELSE 0)]
    /\ pc' = [pc EXCEPT ![c] = "parse"]
    /\ UNCHANGED <<errorState, results, event, res, todo, fetched, errors, log,
                   asked>>

\* queryHost, line 96
Sleep(c) ==
    /\ pc[c] = "sleep"
    /\ sleeps' = sleeps + 1
    /\ obs' = [obs EXCEPT ![c].sleeps = @ + 1]
    /\ pc' = [pc EXCEPT ![c] = "parse"]
    /\ UNCHANGED <<errorState, results, event, res, todo, fetched, errors, log,
                   asked>>

\* queryHost line 98, parseAPIResponse, and handleEvent lines 148-152:
\* with no document the call ends, else the walk over it starts
ParseAPIResponse(c) ==
    /\ pc[c] = "parse"
    /\ LET p == parseAPIResponse(res[c]) IN
       /\ errorState' = (errorState \/ p.failed)
       /\ errors' = errors + (IF p.failed THEN 1 ELSE 0)
       /\ obs' = [obs EXCEPT ![c].data = p.data,
                             ![c].errors = @ + (IF p.failed THEN 1 ELSE 0)]
       /\ IF NoData(p.data)
          THEN /\ pc' = [pc EXCEPT ![c] = "done"]
               /\ todo' = todo
          ELSE /\ pc' = [pc EXCEPT ![c] = "notify"]
               /\ todo' = [todo EXCEPT ![c] = Extract(event[c].data, p.data)]
    /\ log' = Append(log, [code |-> res[c].code, body |-> BodyKind(res[c].content),
                            late |-> obs[c].late])
    /\ UNCHANGED <<results, event, res, fetched, sleeps, asked>>

\* one notifyListeners(evt) of lines 154-201
Notify(c) ==
    /\ pc[c] = "notify"
    /\ todo[c].facts # <<>>
    /\ obs' = [obs EXCEPT ![c].facts = Append(@, Head(todo[c].facts))]
    /\ todo' = [todo EXCEPT ![c].facts = Tail(@)]
    /\ UNCHANGED <<errorState, results, pc, event, res, fetched, sleeps, errors, log,
                   asked>>

\* the walk ends: it reached line 201, or an exception leaves handleEvent
EndWalk(c) ==
    /\ pc[c] = "notify"
    /\ todo[c].facts = <<>>
    /\ obs' = [obs EXCEPT ![c].raised = todo[c].raised]
    /\ todo' = [todo EXCEPT ![c] = Ok(<<>>)]
    /\ pc' = [pc EXCEPT ![c] = "done"]
    /\ UNCHANGED <<errorState, results, event, res, fetched, sleeps, errors, log,
                   asked>>

\* handleEvent is over and control is back with the scanner
Return(c) ==
    /\ pc[c] = "done"
    /\ pc' = [pc EXCEPT ![c] = "idle"]
    /\ event' = [event EXCEPT ![c] = NoEvent]
    /\ res' = [res EXCEPT ![c] = NoResponse]
    /\ obs' = [obs EXCEPT ![c] = NoObs]
    /\ UNCHANGED <<errorState, results, todo, fetched, sleeps, errors, log, asked>>

\* the scanner delivers one event at a time to an instance
Sequential == \A c \in Calls : pc[c] = "idle"

Step(c) ==
    \/ CheckErrorState(c)
    \/ CheckResults(c)
    \/ MarkResults(c)
    \/ CheckEventName(c)
    \/ \E r \in Responses : FetchUrl(c, r)
    \/ Sleep(c)
    \/ ParseAPIResponse(c)
    \/ Notify(c)
    \/ EndWalk(c)
    \/ Return(c)

Next ==
    \/ \E c \in Calls, e \in Events : Sequential /\ HandleEvent(c, e)
    \/ \E c \in Calls : Step(c)

Spec == Init /\ [][Next]_vars

(***************************************************************************)
(* Other ways the scanner can deliver events.  Both draw the results of    *)
(* fetchUrl from a few that cover the outcomes: a document, a document     *)
(* the walk raises on, an empty body, and the statuses 404, 429 and 500.   *)
(***************************************************************************)
FewResponses ==
    [code : {PyStr("200")},
     content : {PyNone,
                Text(json_dumps(Doc(Absent, PyList(<<Leak(PyStr("dump1"))>>)))),
                Text(json_dumps(Doc(PyInt(5), Absent)))}]
    \cup [code : {PyStr("404"), PyStr("429"), PyStr("500")}, content : {PyNone}]

FewStep(c) ==
    \/ CheckErrorState(c)
    \/ CheckResults(c)
    \/ MarkResults(c)
    \/ CheckEventName(c)
    \/ \E r \in FewResponses : FetchUrl(c, r)
    \/ Sleep(c)
    \/ ParseAPIResponse(c)
    \/ Notify(c)
    \/ EndWalk(c)
    \/ Return(c)

\* the call on top of the stack: no later call is in progress
Top(c) == pc[c] # "idle" /\ \A d \in Calls : d > c => pc[d] = "idle"

\* where control is outside handleEvent while a call is in progress: in
\* fetchUrl, in time.sleep, in notifyListeners
Outside(c) == pc[c] \in {"fetch", "sleep", "notify"}

\* reentrant delivery: handleEvent is called again, on the same stack,
\* while a call is in fetchUrl, time.sleep or notifyListeners; the outer
\* call goes on when the inner one has returned
NextReentrant ==
    \/ \E c \in Calls, e \in Events :
          /\ \A d \in Calls : Top(d) => Outside(d)
          /\ HandleEvent(c, e)
    \/ \E c \in Calls : Top(c) /\ FewStep(c)

SpecReentrant == Init /\ [][NextReentrant]_vars

\* concurrent delivery: threads call handleEvent on one instance and
\* their steps interleave in any order; two addresses and three results
\* of fetchUrl are enough for two calls to meet at either gate
RacingEvents == [eventType : {"IP_ADDRESS"}, data : {"1.2.3.4", "5.6.7.8"}]

RacingResponses ==
    {[code |-> PyStr("200"),
      content |-> Text(json_dumps(Doc(Absent, PyList(<<Leak(PyStr("dump1"))>>))))],
     [code |-> PyStr("404"), content |-> PyNone],
     [code |-> PyStr("429"), content |-> PyNone]}

RacingStep(c) ==
    \/ CheckErrorState(c)
    \/ CheckResults(c)
    \/ MarkResults(c)
    \/ CheckEventName(c)
    \/ \E r \in RacingResponses : FetchUrl(c, r)
    \/ Sleep(c)
    \/ ParseAPIResponse(c)
    \/ Notify(c)
    \/ EndWalk(c)
    \/ Return(c)

\* the two threads, each running the call of its own frame
Threads == {1, 2}

NextConcurrent ==
    \/ \E c \in Threads, e \in RacingEvents : HandleEvent(c, e)
    \/ \E c \in Threads : RacingStep(c)

SpecConcurrent == Init /\ [][NextConcurrent]_vars

(***************************************************************************)
(* Properties of a session under sequential delivery                       *)
(***************************************************************************)
Done(c) == pc[c] = "done"
Queried(c) == obs[c].calls = 1
IsTarget(c) == event[c].eventType = "IP_ADDRESS"

\* a status that ends the session: anything but 200 and 404
FatalCode(code) == code \notin {PyStr("200"), PyStr("404")}
FatalIn(l) == \E i \in 1..Len(l) : FatalCode(l[i].code)
CodeIn(l, code) == \E i \in 1..Len(l) : l[i].code = code
LastCode(l) == IF l = <<>> THEN PyStr("") ELSE l[Len(l)].code

\* C1: fetchUrl is called at most once for a target in a session, and a
\* handleEvent call for a target that handleEvent was called for before
\* makes no fetchUrl call and notifies no event, whatever the first call's
\* result was.
C1_QueriedAtMostOnce ==
    /\ \A t \in Targets : fetched[t] <= 1
    /\ \A c \in Calls : obs[c].askedBefore => obs[c].calls = 0 /\ obs[c].facts = <<>>

\* a second handleEvent(T) has ended in a session that is not in error
\* and in which T was queried
C1_Witness ==
    \E c \in Calls : /\ Done(c) /\ IsTarget(c)
                     /\ obs[c].askedBefore /\ ~obs[c].errBefore
                     /\ fetched[event[c].data] = 1

\* C2: once a fetchUrl result with a status other than 200 and 404 has
\* been classified, every later handleEvent call, for a new target or a
\* seen one, makes no fetchUrl call and notifies no event.
C2_FailClosed ==
    \A c \in Calls : FatalIn(obs[c].logBefore) => obs[c].calls = 0 /\ obs[c].facts = <<>>

\* handleEvent for a target not seen before has ended after a fatal result
C2_Witness ==
    \E c \in Calls : /\ Done(c) /\ IsTarget(c)
                     /\ FatalIn(obs[c].logBefore) /\ ~obs[c].seenBefore

\* C3: errorState is false after setup, changes only from false to true,
\* and only in the step that classifies a fetchUrl result whose status is
\* not 200 and not 404; no step sets it back to false.
C3_ErrorStateAbsorbing ==
    /\ errorState = FALSE
    /\ [][errorState' # errorState =>
            /\ ~errorState /\ errorState'
            /\ \E c \in Calls : /\ pc[c] = "parse" /\ pc'[c] = "done"
                                /\ FatalCode(res[c].code)]_vars

\* a handleEvent call has started and ended with errorState true
C3_Witness ==
    \E c \in Calls : Done(c) /\ obs[c].errBefore /\ errorState

\* C4: a result with status 404 notifies no event and leaves errorState
\* false, and the next handleEvent call for a target not in results still
\* calls fetchUrl.
C4_NotFoundIsSoft ==
    \A c \in Calls :
        /\ Done(c) /\ Queried(c) /\ res[c].code = PyStr("404")
              => obs[c].facts = <<>> /\ ~errorState
        /\ Done(c) /\ IsTarget(c) /\ ~obs[c].seenBefore
                   /\ LastCode(obs[c].logBefore) = PyStr("404")
              => Queried(c)

\* after a 404 a call for another target has queried it
C4_Witness ==
    \E c \in Calls : /\ Done(c) /\ IsTarget(c) /\ ~obs[c].seenBefore
                     /\ LastCode(obs[c].logBefore) = PyStr("404")
                     /\ Queried(c) /\ ~errorState

\* C5: a result with status 429 notifies no event in that call and sets
\* errorState, which is true in every later state of the session.
C5_RateLimitedIsFatal ==
    /\ \A c \in Calls : Done(c) /\ Queried(c) /\ res[c].code = PyStr("429")
                          => obs[c].facts = <<>> /\ errorState
    /\ CodeIn(log, PyStr("429")) => errorState

\* a later handleEvent call has ended after a 429, errorState still true
C5_Witness ==
    \E c \in Calls : /\ Done(c) /\ CodeIn(obs[c].logBefore, PyStr("429"))
                     /\ errorState /\ obs[c].facts = <<>>

(***************************************************************************)
(* The events a document of the documented shape is to produce, stated     *)
(* from the description of the extraction: member by member, with the      *)
(* joined strings written out case by case.                                *)
(***************************************************************************)
Has(d, k) == \E i \in 1..Len(d[2]) : d[2][i][1] = k
Field(d, k) == d[2][CHOOSE i \in 1..Len(d[2]) : d[2][i][1] = k][2]
\* the string member k of d, "" when d has none
Val(d, k) == IF Has(d, k) THEN Field(d, k)[2] ELSE ""

StrMembers(d, ks) == \A k \in ks : Has(d, k) => Field(d, k)[1] = "str"
ObjectOrNone(d, k) == Has(d, k) => Field(d, k)[1] = "dict"
ListOrNone(d, k) == Has(d, k) => Field(d, k)[1] = "list"
ListOf(d, k) == IF Has(d, k) THEN Field(d, k)[2] ELSE <<>>

\* Service: port (string), headers.Server (strings), geoip and software
\* with string members
ServiceShape(sv) ==
    /\ sv[1] = "dict"
    /\ StrMembers(sv, {"port"})
    /\ ObjectOrNone(sv, "headers") /\ ObjectOrNone(sv, "geoip") /\ ObjectOrNone(sv, "software")
    /\ Has(sv, "headers") =>
          /\ ListOrNone(Field(sv, "headers"), "Server")
          /\ \A i \in 1..Len(ListOf(Field(sv, "headers"), "Server")) :
                ListOf(Field(sv, "headers"), "Server")[i][1] = "str"
    /\ Has(sv, "geoip") =>
          StrMembers(Field(sv, "geoip"), {"city_name", "region_name", "country_name"})
    /\ Has(sv, "software") => StrMembers(Field(sv, "software"), {"name", "version", "os"})

LeakShape(lk) == lk[1] = "dict" /\ StrMembers(lk, {"data"})

\* Payload: a mapping with optional Services and Leaks
PayloadShape(d) ==
    /\ d[1] = "dict"
    /\ ListOrNone(d, "Services") /\ ListOrNone(d, "Leaks")
    /\ \A i \in 1..Len(ListOf(d, "Services")) : ServiceShape(ListOf(d, "Services")[i])
    /\ \A i \in 1..Len(ListOf(d, "Leaks")) : LeakShape(ListOf(d, "Leaks")[i])

Fact(kind, text) == <<kind, <<"str", text>> >>

RECURSIVE Flatten(_)
Flatten(seqs) == IF seqs = <<>> THEN <<>> ELSE Head(seqs) \o Flatten(Tail(seqs))

NonEmpty(v) == v[2] # ""

PortOpen(target, sv) ==
    IF Val(sv, "port") # "" THEN <<Fact("TCP_PORT_OPEN", target \o ":" \o Val(sv, "port"))>>
    ELSE <<>>

WebServerBanner(sv) ==
    IF ~Has(sv, "headers") THEN <<>>
    ELSE LET named == SelectSeq(ListOf(Field(sv, "headers"), "Server"), NonEmpty)
         IN [i \in 1..Len(named) |-> Fact("WEBSERVER_BANNER", named[i][2])]

\* city, region, country: those present and non-empty, joined by ", "
GeoString(g) ==
    LET c == Val(g, "city_name")
        r == Val(g, "region_name")
        k == Val(g, "country_name")
    IN CASE c # "" /\ r # "" /\ k # "" -> c \o ", " \o r \o ", " \o k
         [] c # "" /\ r # "" /\ k = "" -> c \o ", " \o r
         [] c # "" /\ r = "" /\ k # "" -> c \o ", " \o k
         [] c = "" /\ r # "" /\ k # "" -> r \o ", " \o k
         [] c # "" /\ r = "" /\ k = "" -> c
         [] c = "" /\ r # "" /\ k = "" -> r
         [] c = "" /\ r = "" /\ k # "" -> k
         [] c = "" /\ r = "" /\ k = "" -> ""

GeoInfo(sv) ==
    IF Has(sv, "geoip") /\ GeoString(Field(sv, "geoip")) # ""
    THEN <<Fact("GEOINFO", GeoString(Field(sv, "geoip")))>>
    ELSE <<>>

\* name, version: those present and non-empty, joined by one space
SoftwareString(sw) ==
    LET n == Val(sw, "name")
        v == Val(sw, "version")
    IN CASE n # "" /\ v # "" -> n \o " " \o v
         [] n # "" /\ v = "" -> n
         [] n = "" /\ v # "" -> v
         [] n = "" /\ v = "" -> ""

SoftwareUsed(sv) ==
    IF Has(sv, "software") /\ SoftwareString(Field(sv, "software")) # ""
    THEN <<Fact("SOFTWARE_USED", SoftwareString(Field(sv, "software")))>>
    ELSE <<>>

\* software.os present and non-empty
OperatingSystem(sv) ==
    IF Has(sv, "software") /\ Val(Field(sv, "software"), "os") # ""
    THEN <<Fact("OPERATING_SYSTEM", Val(Field(sv, "software"), "os"))>>
    ELSE <<>>

\* software.os present, empty or not
OperatingSystemIfPresent(sv) ==
    IF Has(sv, "software") /\ Has(Field(sv, "software"), "os")
    THEN <<Fact("OPERATING_SYSTEM", Val(Field(sv, "software"), "os"))>>
    ELSE <<>>

LeakContent(lk) ==
    IF Val(lk, "data") # "" THEN <<Fact("LEAKSITE_CONTENT", Val(lk, "data"))>> ELSE <<>>

ServicesOf(d) == ListOf(d, "Services")
LeaksOf(d) == ListOf(d, "Leaks")

ExpectedOfService(target, sv) ==
    PortOpen(target, sv) \o WebServerBanner(sv) \o GeoInfo(sv) \o SoftwareUsed(sv)
        \o OperatingSystem(sv)

\* RawData, then each Service's events, then the Leaks'
ExpectedFacts(target, d) ==
    <<Fact("RAW_RIR_DATA", Str(d))>>
    \o Flatten([i \in 1..Len(ServicesOf(d)) |-> ExpectedOfService(target, ServicesOf(d)[i])])
    \o Flatten([i \in 1..Len(LeaksOf(d)) |-> LeakContent(LeaksOf(d)[i])])

IsPrefix(a, b) == Len(a) <= Len(b) /\ SubSeq(b, 1, Len(a)) = a

\* a call that is walking, or has walked, a document of the documented shape
Walking(c) == pc[c] \in {"notify", "done"} /\ ~IsNone(obs[c].data) /\ PayloadShape(obs[c].data)
Walked(c) == Done(c) /\ ~IsNone(obs[c].data) /\ PayloadShape(obs[c].data)

IsGeoInfo(f) == f[1] = "GEOINFO"
IsSoftwareUsed(f) == f[1] = "SOFTWARE_USED"
IsOperatingSystem(f) == f[1] = "OPERATING_SYSTEM"
IsOfService(f) == f[1] \in {"TCP_PORT_OPEN", "WEBSERVER_BANNER", "GEOINFO"}

ExampleRaw ==
    "{'Services': [{'port': '443', 'headers': {'Server': ['nginx']}, "
    \o "'geoip': {'city_name': 'Paris', 'country_name': 'France'}, "
    \o "'software': {'name': 'nginx', 'version': '1.18', 'os': 'Linux'}}], "
    \o "'Leaks': [{'data': 'dump1'}]}"

ExampleFacts ==
    << Fact("RAW_RIR_DATA", ExampleRaw),
       Fact("TCP_PORT_OPEN", "1.2.3.4:443"),
       Fact("WEBSERVER_BANNER", "nginx"),
       Fact("GEOINFO", "Paris, France"),
       Fact("SOFTWARE_USED", "nginx 1.18"),
       Fact("OPERATING_SYSTEM", "Linux"),
       Fact("LEAKSITE_CONTENT", "dump1") >>

GotExample(c) ==
    /\ Queried(c) /\ event[c].data = "1.2.3.4"
    /\ res[c] = [code |-> PyStr("200"), content |-> Text(json_dumps(ExampleDoc))]

\* C6: the events of one handleEvent call are notified in a fixed order:
\* RawData; then per Service, in document order, PortOpen, the
\* WebServerBanners in list order, GeoInfo, SoftwareUsed, OperatingSystem;
\* then one LeakContent per Leak in document order.  For the example
\* payload and target 1.2.3.4 the events are exactly ExampleFacts.
C6_EmissionOrder ==
    \A c \in Calls :
        /\ Walking(c) => IsPrefix(obs[c].facts, ExpectedFacts(event[c].data, obs[c].data))
        /\ Walked(c) => obs[c].facts = ExpectedFacts(event[c].data, obs[c].data)
        /\ Done(c) /\ GotExample(c) => obs[c].facts = ExampleFacts

\* the call for 1.2.3.4 that got the example payload has ended
C6_Witness ==
    \E c \in Calls : Done(c) /\ GotExample(c) /\ Len(obs[c].facts) = 7

\* C7: the walk never raises on a decoded document that is not None,
\* whatever its shape: handleEvent completes normally.
C7_NeverRaises ==
    \A c \in Calls : Done(c) => ~obs[c].raised

\* C8: for every Service with a geoip object the GeoInfo value is the
\* present and non-empty ones of city_name, region_name, country_name, in
\* that order, joined by ", "; one GeoInfo when that string is non-empty,
\* none when it is empty.
C8_GeoInfo ==
    \A c \in Calls :
        Walked(c) =>
            SelectSeq(obs[c].facts, IsGeoInfo)
              = Flatten([i \in 1..Len(ServicesOf(obs[c].data)) |->
                            GeoInfo(ServicesOf(obs[c].data)[i])])

\* a geoip with city and country and an empty region has been walked and
\* gave one GeoInfo
C8_Witness ==
    \E c \in Calls :
        /\ Walked(c)
        /\ \E i \in 1..Len(ServicesOf(obs[c].data)) :
              LET sv == ServicesOf(obs[c].data)[i] IN
              /\ Has(sv, "geoip")
              /\ Has(Field(sv, "geoip"), "region_name")
              /\ GeoString(Field(sv, "geoip")) = "Paris, France"
        /\ SelectSeq(obs[c].facts, IsGeoInfo) = <<Fact("GEOINFO", "Paris, France")>>

\* some Service of the document has software {}
HasEmptySoftware(d) ==
    \E i \in 1..Len(ServicesOf(d)) :
        /\ Has(ServicesOf(d)[i], "software")
        /\ Field(ServicesOf(d)[i], "software") = <<"dict", <<>> >>

OsFacts(d) ==
    Flatten([i \in 1..Len(ServicesOf(d)) |-> OperatingSystem(ServicesOf(d)[i])])
OsFactsIfPresent(d) ==
    Flatten([i \in 1..Len(ServicesOf(d)) |-> OperatingSystemIfPresent(ServicesOf(d)[i])])

\* what call c notified for the software members, osFacts being the
\* OperatingSystem events it is to notify
SoftwareClaim(c, osFacts) ==
    LET svs == ServicesOf(obs[c].data) IN
    /\ SelectSeq(obs[c].facts, IsSoftwareUsed)
         = Flatten([i \in 1..Len(svs) |-> SoftwareUsed(svs[i])])
    /\ SelectSeq(obs[c].facts, IsOperatingSystem) = osFacts
    /\ HasEmptySoftware(obs[c].data) =>
         SelectSeq(obs[c].facts, IsOfService)
           = Flatten([i \in 1..Len(svs) |->
                PortOpen(event[c].data, svs[i]) \o WebServerBanner(svs[i])
                    \o GeoInfo(svs[i])])

\* C9 as amended: SoftwareUsed is notified iff software.name or
\* software.version is present and non-empty, its value those joined by
\* one space; OperatingSystem is notified, with the raw value, iff
\* software.os is present and non-empty, whether or not SoftwareUsed is;
\* a Service with software {} gives neither, and still gives its
\* PortOpen, WebServerBanner and GeoInfo.
C9_SoftwareStep ==
    \A c \in Calls : Walked(c) => SoftwareClaim(c, OsFacts(obs[c].data))

\* C9 as stated: OperatingSystem is notified whenever software.os is
\* present.
C9_OsWheneverPresent ==
    \A c \in Calls : Walked(c) => SoftwareClaim(c, OsFactsIfPresent(obs[c].data))

\* a software with a name and an empty os has been walked: SoftwareUsed
\* and no OperatingSystem
C9_Witness ==
    \E c \in Calls :
        /\ Walked(c)
        /\ \E i \in 1..Len(ServicesOf(obs[c].data)) :
              LET sv == ServicesOf(obs[c].data)[i] IN
              /\ Has(sv, "software")
              /\ Has(Field(sv, "software"), "os")
              /\ Val(Field(sv, "software"), "os") = ""
              /\ Val(Field(sv, "software"), "name") # ""
        /\ SelectSeq(obs[c].facts, IsSoftwareUsed) # <<>>
        /\ SelectSeq(obs[c].facts, IsOperatingSystem) = <<>>

\* a result with status 200 and no document: no body, or a body that is
\* not JSON
SoftMiss(entry) == entry.code = PyStr("200") /\ entry.body \in {"none", "bad"}

\* C10: a 200 result whose body is absent, empty or not JSON notifies no
\* event and leaves errorState false, and after any number of such
\* results a handleEvent call for a new target still calls fetchUrl.
C10_UndecodableIsSoft ==
    \A c \in Calls :
        /\ Done(c) /\ Queried(c) /\ res[c].code = PyStr("200")
                   /\ BodyKind(res[c].content) \in {"none", "bad"}
              => obs[c].facts = <<>> /\ ~obs[c].raised /\ ~errorState
        /\ Done(c) /\ IsTarget(c) /\ ~obs[c].seenBefore
                   /\ (\A i \in 1..Len(obs[c].logBefore) : SoftMiss(obs[c].logBefore[i]))
              => Queried(c)

\* after two such results, one of them a body that is not JSON, a third
\* target has been queried
C10_Witness ==
    \E c \in Calls :
        /\ Done(c) /\ IsTarget(c) /\ Queried(c) /\ ~errorState
        /\ Len(obs[c].logBefore) = 2
        /\ \A i \in 1..2 : SoftMiss(obs[c].logBefore[i])
        /\ \E i \in 1..2 : obs[c].logBefore[i].body = "bad"

\* a status that is none of '200', '404' and '429': another status, or
\* the None of a request that timed out
OtherCode(code) == code \notin {PyStr("200"), PyStr("404"), PyStr("429")}

\* C11: a result whose status is none of '200', '404' and '429', the None
\* of a timed-out request included, sets errorState, logs one error and
\* notifies no event, whether or not it carries a body; errorState is true
\* from then on.
C11_OtherStatusIsFatal ==
    /\ \A c \in Calls :
           Done(c) /\ Queried(c) /\ OtherCode(res[c].code)
              => errorState /\ obs[c].facts = <<>> /\ ~obs[c].raised
                            /\ IsNone(obs[c].data) /\ obs[c].errors = 1
    /\ (\E i \in 1..Len(log) : OtherCode(log[i].code)) => errorState

\* a request that timed out has ended the session
C11_Witness ==
    \E c \in Calls :
        /\ Done(c) /\ Queried(c) /\ ~obs[c].errBefore
        /\ IsNone(res[c].code)
        /\ errorState /\ obs[c].facts = <<>>

RECURSIVE SumFetched(_)
SumFetched(ts) ==
    IF ts = {} THEN 0
    ELSE LET t == CHOOSE x \in ts : TRUE IN fetched[t] + SumFetched(ts \ {t})

\* a call that one of the two gates returns from
Blocked(c) == obs[c].errBefore \/ obs[c].seenBefore

\* C12: a handleEvent call for a target that passes both gates makes one
\* fetchUrl call and then one time.sleep before parseAPIResponse looks at
\* the result, whatever its status; a call that a gate returns from makes
\* neither; and the session has slept as often as it has called fetchUrl,
\* but for a call that is between the two.
C12_OneDelayPerQuery ==
    /\ \A c \in Calls :
        /\ pc[c] = "sleep" => obs[c].calls = 1 /\ obs[c].sleeps = 0
        /\ pc[c] \in {"parse", "notify"} => obs[c].calls = 1 /\ obs[c].sleeps = 1
        /\ Done(c) /\ IsTarget(c) /\ ~Blocked(c) => obs[c].calls = 1 /\ obs[c].sleeps = 1
        /\ Done(c) /\ Blocked(c) => obs[c].calls = 0 /\ obs[c].sleeps = 0
        /\ pc[c] # "idle" /\ Len(log) > Len(obs[c].logBefore) => obs[c].sleeps = 1
    /\ SumFetched(Targets) = sleeps + Cardinality({c \in Calls : pc[c] = "sleep"})
    /\ Len(log) <= sleeps

\* two targets were each queried and slept for, the second with status
\* '429'
C12_Witness ==
    \E c \in Calls :
        /\ Done(c) /\ res[c].code = PyStr("429")
        /\ obs[c].calls = 1 /\ obs[c].sleeps = 1
        /\ sleeps = 2 /\ SumFetched(Targets) = 2

\* a call past line 141
Marked(c) ==
    \/ pc[c] \in {"checkType", "fetch", "sleep", "parse", "notify"}
    \/ Done(c) /\ Queried(c)

\* call c was made while call d, for the same event data, was in
\* fetchUrl, time.sleep or notifyListeners
NestedIn(c, d) ==
    /\ d < c /\ pc[c] # "idle"
    /\ Outside(d)
    /\ event[c].data = event[d].data

\* C13: the event data is in results from line 141 on, before fetchUrl is
\* called, and nothing is ever removed from results; so fetchUrl is only
\* ever called for data that is in results, and a handleEvent call made
\* for the same data while the first is in fetchUrl, in time.sleep or in
\* notifyListeners returns at a gate without a fetchUrl call or an event,
\* and the data is still queried at most once.
C13_MarkedBeforeQuery ==
    /\ [](/\ \A c \in Calls : Marked(c) => event[c].data \in results
          /\ \A t \in Targets : fetched[t] <= 1
          /\ \A c, d \in Calls :
                NestedIn(c, d) => /\ pc[c] \in {"checkError", "checkSeen", "done"}
                                  /\ obs[c].calls = 0 /\ obs[c].sleeps = 0
                                  /\ obs[c].facts = <<>>)
    /\ [][/\ results \subseteq results'
          /\ \A t \in Targets : fetched'[t] # fetched[t] => t \in results]_vars

\* a second call for the same address, made from inside notifyListeners
\* while the session is active, has returned without a query
C13_Witness ==
    \E c, d \in Calls :
        /\ NestedIn(c, d) /\ pc[d] = "notify" /\ obs[d].facts # <<>>
        /\ IsTarget(c) /\ IsTarget(d)
        /\ Done(c) /\ ~obs[c].errBefore /\ obs[c].calls = 0
        /\ fetched[event[c].data] = 1

\* C14: a handleEvent call made with errorState true, and one made for
\* data already in results, return at the gate: they leave results and
\* errorState as they were, call neither fetchUrl nor time.sleep, log no
\* error and notify no event; data that is new when errorState is true is
\* not added to results.
C14_EarlyReturnsChangeNothing ==
    /\ [](\A c \in Calls :
            pc[c] # "idle" /\ Blocked(c)
               => /\ pc[c] \in {"checkError", "checkSeen", "done"}
                  /\ obs[c].calls = 0 /\ obs[c].sleeps = 0 /\ obs[c].errors = 0
                  /\ obs[c].facts = <<>> /\ ~obs[c].raised
                  /\ errorState = obs[c].errBefore
                  /\ (event[c].data \in results) = obs[c].seenBefore
                  /\ log = obs[c].logBefore)
    /\ [][(\E c \in Calls : \/ pc[c] # "idle" /\ Blocked(c)
                            \/ pc'[c] # "idle" /\ (obs'[c].errBefore \/ obs'[c].seenBefore))
             => UNCHANGED <<results, errorState, fetched, sleeps, errors, log>>]_vars

\* a call for a new target made with errorState true has returned, and the
\* target is not in results
C14_Witness ==
    \E c \in Calls :
        /\ Done(c) /\ IsTarget(c)
        /\ obs[c].errBefore /\ ~obs[c].seenBefore
        /\ event[c].data \notin results
        /\ results # {}

IsRawData(f) == f[1] = "RAW_RIR_DATA"

\* the documents a body can hold that are not null
Documents == Docs \ {PyNone}

\* a result with status 200 whose body is the JSON text of a document
\* that is not null
HasDocument(r) == r.code = PyStr("200") /\ \E d \in Documents : r.content = Text(json_dumps(d))

\* C15: a handleEvent call notifies exactly one RAW_RIR_DATA event, whose
\* value is str() of the whole decoded document, when it called fetchUrl
\* and the result has status 200 and a body that decodes to a document
\* other than null -- the empty object included; every other call (one
\* returned from a gate, an event of another type, status 404 or a fatal
\* status, no body, a body that is not JSON, the body null) notifies no
\* event of any type.
C15_RawDataIffDocument ==
    \A c \in Calls :
        Done(c) =>
            IF Queried(c) /\ HasDocument(res[c])
            THEN \E d \in Documents :
                    /\ res[c].content = Text(json_dumps(d))
                    /\ SelectSeq(obs[c].facts, IsRawData) = <<Fact("RAW_RIR_DATA", Str(d))>>
                    /\ Head(obs[c].facts) = Fact("RAW_RIR_DATA", Str(d))
            ELSE obs[c].facts = <<>>

\* the body {} has given one RAW_RIR_DATA event and nothing else
C15_Witness ==
    \E c \in Calls :
        /\ Done(c) /\ Queried(c)
        /\ res[c] = [code |-> PyStr("200"), content |-> Text(<<Tok("{"), Tok("}")>>)]
        /\ obs[c].facts = <<Fact("RAW_RIR_DATA", "{}")>>

EmptyEntry(v) == v = PyDict(<<>>)
NotEmptyEntry(v) == ~EmptyEntry(v)

\* the list without its empty entries; anything but a list as it is
WithoutEmpty(v) == IF v[1] = "list" THEN PyList(SelectSeq(v[2], NotEmptyEntry)) ELSE v

\* document d with the empty entries taken out of Services and Leaks
StripEmpty(d) ==
    PyDict([i \in 1..Len(d[2]) |->
               IF d[2][i][1] \in {"Services", "Leaks"}
               THEN <<d[2][i][1], WithoutEmpty(d[2][i][2])>>
               ELSE d[2][i]])

\* C16: an empty entry of Services or Leaks makes handleEvent notify no
\* event and does not end the walk: after RAW_RIR_DATA, which shows the
\* document as it is, the events notified are those notified for the
\* document without its empty entries, which are the ones the documented
\* rules give for it.
C16_EmptyEntriesAreSkipped ==
    \A c \in Calls :
        Walked(c) /\ StripEmpty(obs[c].data) # obs[c].data
           => /\ ~obs[c].raised
              /\ Tail(obs[c].facts)
                    = Tail(Extract(event[c].data, StripEmpty(obs[c].data)).facts)
              /\ Tail(obs[c].facts)
                    = Tail(ExpectedFacts(event[c].data, StripEmpty(obs[c].data)))

\* a document whose first service and first leak are empty has been
\* walked, and the entries after them have given events
C16_Witness ==
    \E c \in Calls :
        /\ Walked(c)
        /\ Has(obs[c].data, "Services") /\ Has(obs[c].data, "Leaks")
        /\ Len(Field(obs[c].data, "Services")[2]) > 1
        /\ Len(Field(obs[c].data, "Leaks")[2]) > 1
        /\ EmptyEntry(Field(obs[c].data, "Services")[2][1])
        /\ EmptyEntry(Field(obs[c].data, "Leaks")[2][1])
        /\ \E i \in 1..Len(obs[c].facts) : obs[c].facts[i][1] = "TCP_PORT_OPEN"
        /\ \E i \in 1..Len(obs[c].facts) : obs[c].facts[i][1] = "LEAKSITE_CONTENT"

\* C17: under sequential delivery sf.error is called at most once in a
\* session, in the step that sets errorState, and no handleEvent call
\* made after that logs an error.
C17_OneErrorPerSession ==
    /\ [](/\ errors <= 1
          /\ (errors = 1) = errorState
          /\ \A c \in Calls : pc[c] # "idle" /\ obs[c].errBefore => obs[c].errors = 0)
    /\ [][errors' # errors
             => ~errorState /\ errorState' /\ errors' = errors + 1]_vars

\* a call for a new target made after the error has returned, and the
\* session still counts one error
C17_Witness ==
    \E c \in Calls :
        /\ Done(c) /\ IsTarget(c)
        /\ obs[c].errBefore /\ ~obs[c].seenBefore
        /\ errors = 1 /\ FatalCode(LastCode(log))

\* call c has called fetchUrl
HasQueried(c) == pc[c] \in {"sleep", "parse", "notify", "done"} /\ obs[c].calls = 1

\* C18: lines 138 and 141 are a check and a later store with nothing to
\* keep another thread out in between.  With two threads the results gate
\* only stops a call made after the data was stored: such a call makes no
\* fetchUrl call, but two calls for the same address that both pass line
\* 138 before either reaches line 141 both call fetchUrl, so an address
\* can be queried twice -- once for each thread, and no more.
C18_SeenGateRace ==
    /\ \A c \in Threads :
           pc[c] # "idle" /\ obs[c].seenBefore => obs[c].calls = 0 /\ obs[c].facts = <<>>
    /\ \A c \in Threads :
           pc[c] \in {"checkType", "fetch"} \/ HasQueried(c) => event[c].data \in results
    /\ \A t \in Targets : fetched[t] <= Cardinality(Threads)

\* both threads have called fetchUrl for the same address
C18_Witness ==
    \E c, d \in Threads :
        /\ c # d
        /\ event[c] = event[d] /\ IsTarget(c)
        /\ HasQueried(c) /\ HasQueried(d)
        /\ fetched[event[c].data] = 2

\* the fetchUrl calls made when errorState was already true: those whose
\* result is in the log, and those of calls that have not got that far
LateQueries ==
    Cardinality({i \in 1..Len(log) : log[i].late})
    + Cardinality({c \in Threads : pc[c] \in {"sleep", "parse"} /\ obs[c].late})

\* C19: line 135 is a check with nothing to keep another thread from
\* setting errorState between it and the fetchUrl call of line 89.  With
\* two threads the gate only stops a call made after errorState was set:
\* such a call makes no fetchUrl call, but a call that passed line 135
\* before the other thread's result set errorState still calls fetchUrl
\* and notifies its events afterwards -- one such call for the other
\* thread, and no more.
C19_ErrorGateRace ==
    /\ \A c \in Threads :
           pc[c] # "idle" /\ obs[c].errBefore => obs[c].calls = 0 /\ obs[c].facts = <<>>
    /\ \A c \in Threads : obs[c].late => errorState /\ ~obs[c].errBefore
    /\ LateQueries <= Cardinality(Threads) - 1

\* one thread's result has set errorState, and the other thread, called
\* for another address, has called fetchUrl after that and notified events
C19_Witness ==
    \E c, d \in Threads :
        /\ c # d /\ Done(c) /\ Done(d)
        /\ IsTarget(c) /\ IsTarget(d) /\ event[c].data # event[d].data
        /\ obs[d].errors = 1 /\ ~obs[d].late
        /\ obs[c].late /\ obs[c].facts # <<>>

\* a call for an IP_ADDRESS event on its way from line 141 to fetchUrl
AboutToQuery(t) ==
    \E c \in Calls : pc[c] \in {"checkType", "fetch"} /\ IsTarget(c) /\ event[c].data = t

\* C20: line 141 stores the event data before line 147 looks at the event
\* type.  A call for an event that is not IP_ADDRESS calls neither
\* fetchUrl nor time.sleep and notifies no event, yet, unless errorState
\* was set, its data is in results afterwards; an IP_ADDRESS call for data
\* already in results returns without a query, so data stored by such an
\* event and not yet queried is never queried.
C20_OtherTypeMarksData ==
    /\ [](\A c \in Calls :
            /\ pc[c] # "idle" /\ ~IsTarget(c)
                  => obs[c].calls = 0 /\ obs[c].sleeps = 0 /\ obs[c].facts = <<>>
            /\ Done(c) /\ ~IsTarget(c) /\ ~obs[c].errBefore => event[c].data \in results
            /\ pc[c] # "idle" /\ IsTarget(c) /\ obs[c].seenBefore
                  => obs[c].calls = 0 /\ obs[c].facts = <<>>)
    /\ [][\A t \in Targets :
             t \in results /\ fetched[t] = 0 /\ ~AboutToQuery(t) => fetched'[t] = 0]_vars

\* an IP_ADDRESS call for an address that only an event of another type
\* had carried has returned at the results gate: the address was never
\* queried
C20_Witness ==
    \E c \in Calls :
        /\ Done(c) /\ IsTarget(c)
        /\ ~obs[c].errBefore /\ obs[c].seenBefore
        /\ obs[c].calls = 0 /\ obs[c].facts = <<>>
        /\ fetched[event[c].data] = 0

=============================================================================
